---- MODULE Spec2Model ----
(***************************************************************************)
(* A model of tools/diff/__init__.py of sinoparserd: the n-way alignment   *)
(* of transcriptions (shared_substring, align), the collection of          *)
(* divergent blocks with their context (DiffWithContext, main), the        *)
(* context-driven grouping (shared_context_size, largest_subgroup,         *)
(* split_into_subgroups, show_hierarchically) and diff_pattern.            *)
(*                                                                         *)
(* A Python string is a sequence of code points (natural numbers); Python  *)
(* indices are 0-based and are kept 0-based in every tuple the code        *)
(* builds (matching blocks, starts, ends).                                 *)
(***************************************************************************)
EXTENDS Integers, Sequences, FiniteSets, TLC

VARIABLES
    args,        \* align / shared_substring: the tuple of input strings
    pc,          \* position in the program
    sorted_args, \* shared_substring: args = sorted(args)
    shared,      \* shared_substring: shared
    pre_shared,  \* shared_substring: pre_shared
    npass,       \* number of completed passes of the while loop (history)
    aligned,     \* main: aligned = align of the normalized texts
    diffs,       \* main: the DiffWithContext objects built from aligned
    group,       \* main: diffs, the list show_hierarchically is called with
    stack,       \* show_hierarchically: the calls still to be made
    split_input, \* split_into_subgroups: the argument it was called with
    blocks,      \* split_into_subgroups: blocks, the members not yet grouped
    groups,      \* split_into_subgroups: groups
    shared_context, \* split_into_subgroups: shared_context
    shown,       \* sentence ids of the leaves printed so far
    ncalls,      \* number of calls of show_hierarchically so far (history)
    dwc,         \* a DiffWithContext object with_context is called on
    rendered,    \* the arguments and the result of the last with_context call
    block_a,     \* diff_pattern: a block
    block_b,     \* diff_pattern: a second block of the same length
    pattern_a,   \* diff_pattern(block_a)
    pattern_b    \* diff_pattern(block_b)

alignVars == <<args, sorted_args, shared, pre_shared, npass, aligned, diffs>>
groupVars == <<group, stack, split_input, blocks, groups, shared_context, shown, ncalls>>
contextVars == <<dwc, rendered>>
patternVars == <<block_a, block_b, pattern_a, pattern_b>>

vars == <<pc, alignVars, groupVars, contextVars, patternVars>>

----------------------------------------------------------------------------
(* Bounds of the model and program constants.                              *)

\* longest input string drawn exhaustively
MaxLen == 2
\* largest number of input strings drawn exhaustively
MaxArgs == 3
\* longest left or right context of a group member drawn exhaustively
MaxCtx == 1
\* largest group drawn exhaustively
MaxGroup == 2
\* largest context width with_context is called with
MaxWidth == 3
\* longest block diff_pattern is called with
MaxBlock == 3
\* ord('a')
OrdA == 97
\* ord(' '), the separator of ' '.join
OrdSpace == 32

\* the characters 'a', 'b' and 'c'
ChA == OrdA
ChB == OrdA + 1
ChC == OrdA + 2
Alphabet == {ChA, ChB}

----------------------------------------------------------------------------
(* Python helpers.                                                         *)

Min(a, b) == IF a <= b THEN a ELSE b
Max(a, b) == IF a >= b THEN a ELSE b

\* s[lo:hi] for 0 <= lo, 0 <= hi
Slice(s, lo, hi) ==
    LET h == Min(hi, Len(s))
    IN  IF lo >= h THEN <<>> ELSE SubSeq(s, lo + 1, h)

\* ''.join(parts), also the flattening of a list of lists
RECURSIVE Join(_)
Join(parts) ==
    IF parts = <<>> THEN <<>> ELSE Head(parts) \o Join(Tail(parts))

\* s < t for two strings (lexicographic by code point)
RECURSIVE StrLess(_, _)
StrLess(s, t) ==
    IF t = <<>> THEN FALSE
    ELSE IF s = <<>> THEN TRUE
    ELSE IF Head(s) # Head(t) THEN Head(s) < Head(t)
    ELSE StrLess(Tail(s), Tail(t))

RECURSIVE InsertSorted(_, _)
InsertSorted(x, xs) ==
    IF xs = <<>> THEN <<x>>
    ELSE IF StrLess(x, Head(xs)) THEN <<x>> \o xs
    ELSE <<Head(xs)>> \o InsertSorted(x, Tail(xs))

\* sorted(args) for a tuple of strings
RECURSIVE SortedStrings(_)
SortedStrings(xs) ==
    IF xs = <<>> THEN <<>>
    ELSE InsertSorted(Head(xs), SortedStrings(Tail(xs)))

\* sorted(set(...)) for a set of integers
RECURSIVE SortedInts(_)
SortedInts(S) ==
    IF S = {} THEN <<>>
    ELSE LET m == CHOOSE x \in S : \A y \in S : x <= y
         IN  <<m>> \o SortedInts(S \ {m})

\* is s a subsequence of t (s can be obtained from t by deleting characters)
RECURSIVE IsSubsequence(_, _)
IsSubsequence(s, t) ==
    IF s = <<>> THEN TRUE
    ELSE IF t = <<>> THEN FALSE
    ELSE IF Head(s) = Head(t) THEN IsSubsequence(Tail(s), Tail(t))
    ELSE IsSubsequence(s, Tail(t))

----------------------------------------------------------------------------
(* difflib.SequenceMatcher(None, a, b).get_matching_blocks(), as the code  *)
(* calls it: no junk function, and the automatic junk heuristic only       *)
(* applies to a second sequence of 200 or more elements.                   *)

\* a[i:i+k] == b[j:j+k] inside a[alo:ahi] and b[blo:bhi]
IsMatch(a, b, alo, ahi, blo, bhi, i, j, k) ==
    /\ alo <= i /\ i + k <= ahi
    /\ blo <= j /\ j + k <= bhi
    /\ \A d \in 0..(k - 1) : a[i + d + 1] = b[j + d + 1]

\* find_longest_match(alo, ahi, blo, bhi): of all maximal matching blocks,
\* the one that starts earliest in a and, of those, earliest in b;
\* (alo, blo, 0) if nothing matches
FindLongestMatch(a, b, alo, ahi, blo, bhi) ==
    LET cands == {<<i, j, k>> \in (alo..(ahi - 1)) \X (blo..(bhi - 1))
                                   \X (1..Min(ahi - alo, bhi - blo)) :
                      IsMatch(a, b, alo, ahi, blo, bhi, i, j, k)}
    IN  IF cands = {} THEN <<alo, blo, 0>>
        ELSE CHOOSE x \in cands :
                 \A y \in cands :
                     \/ x[3] > y[3]
                     \/ x[3] = y[3] /\ x[1] < y[1]
                     \/ x[3] = y[3] /\ x[1] = y[1] /\ x[2] <= y[2]

\* the queue loop of get_matching_blocks followed by matching_blocks.sort():
\* the blocks left of the longest match, the match, the blocks right of it
RECURSIVE MatchQueue(_, _, _, _, _, _)
MatchQueue(a, b, alo, ahi, blo, bhi) ==
    LET x == FindLongestMatch(a, b, alo, ahi, blo, bhi)
        i == x[1]
        j == x[2]
        k == x[3]
    IN  IF k = 0 THEN <<>>
        ELSE (IF alo < i /\ blo < j
                  THEN MatchQueue(a, b, alo, i, blo, j) ELSE <<>>)
             \o <<x>>
             \o (IF i + k < ahi /\ j + k < bhi
                  THEN MatchQueue(a, b, i + k, ahi, j + k, bhi) ELSE <<>>)

\* the collapse of adjacent blocks; blk1 is (i1, j1, k1)
RECURSIVE Collapse(_, _)
Collapse(blk1, rest) ==
    IF rest = <<>> THEN (IF blk1[3] # 0 THEN <<blk1>> ELSE <<>>)
    ELSE LET nxt == Head(rest)
         IN  IF blk1[1] + blk1[3] = nxt[1] /\ blk1[2] + blk1[3] = nxt[2]
             THEN Collapse(<<blk1[1], blk1[2], blk1[3] + nxt[3]>>, Tail(rest))
             ELSE (IF blk1[3] # 0 THEN <<blk1>> ELSE <<>>)
                  \o Collapse(nxt, Tail(rest))

\* get_matching_blocks(): the collapsed blocks and the sentinel (la, lb, 0)
GetMatchingBlocks(a, b) ==
    Collapse(<<0, 0, 0>>, MatchQueue(a, b, 0, Len(a), 0, Len(b)))
    \o << <<Len(a), Len(b), 0>> >>

----------------------------------------------------------------------------
(* shared_substring                                                        *)

\* the body of `for arg in args`: shared rebuilt from the matching blocks
Rebuild(sh, arg) ==
    LET m == GetMatchingBlocks(sh, arg)
    IN  Join([x \in 1..Len(m) |-> Slice(sh, m[x][1], m[x][1] + m[x][3])])

\* the whole `for arg in args` loop of one pass of the while loop
RECURSIVE ForArgs(_, _)
ForArgs(sh, as) ==
    IF as = <<>> THEN sh ELSE ForArgs(Rebuild(sh, Head(as)), Tail(as))

\* one iteration of `while True` up to the test: the value of shared after
\* the for loop
FullPass(sh, as) == ForArgs(sh, as)

\* IsFixedPoint comparing the lengths only
IsFixedPointByLength(sh, pre) == Len(sh) <= Len(pre)

\* `if shared == pre_shared: return shared`
IsFixedPoint(sh, pre) == sh = pre

----------------------------------------------------------------------------
(* align, after `shared = shared_substring of args`                         *)

\* matches = [get_matching_blocks() of (shared, arg) for arg in args]
Matches(as, sh) == [k \in 1..Len(as) |-> GetMatchingBlocks(sh, as[k])]

\* starts = sorted(set(i for m in matches for i, j, n in m))
SharedStarts(ms) ==
    SortedInts(UNION {{ms[k][x][1] : x \in 1..Len(ms[k])} : k \in 1..Len(ms)})

\* ends = starts[1:] + [len(shared)]
SharedEnds(starts, sh) == Tail(starts) \o <<Len(sh)>>

\* the (start, end) pairs of zip(starts, ends) with start in range(i, i+n),
\* each turned into (j + start - i, end - start)
SplitBlock(blk, starts, ends) ==
    LET pairs == [x \in 1..Len(starts) |-> <<starts[x], ends[x]>>]
        InBlock(p) == blk[1] <= p[1] /\ p[1] < blk[1] + blk[3]
        hit == SelectSeq(pairs, InBlock)
    IN  [x \in 1..Len(hit) |->
            <<blk[2] + hit[x][1] - blk[1], hit[x][2] - hit[x][1]>>]

\* matches = [[... for i, j, n in m for start, end in zip(starts, ends) ...]]
SplitMatches(m, starts, ends) ==
    Join([x \in 1..Len(m) |-> SplitBlock(m[x], starts, ends)])

\* starts = [0] + [index for i, n in m for index in (i, i+n)]
MismatchStarts(m) ==
    <<0>> \o Join([x \in 1..Len(m) |-> <<m[x][1], m[x][1] + m[x][2]>>])

\* MismatchEnds without the end of the string: the last block ends where
\* it starts
MismatchEndsNoTail(s, arg) == Tail(s) \o <<s[Len(s)]>>

\* ends = s[1:] + [len(arg)]
MismatchEnds(s, arg) == Tail(s) \o <<Len(arg)>>

\* blocks = [arg[start:end] for start, end in zip(s, e)]
SplitString(arg, s, e) ==
    [x \in 1..Min(Len(s), Len(e)) |-> Slice(arg, s[x], e[x])]

\* any(block): some component is a non-empty string
AnyNonEmpty(block) == \E k \in 1..Len(block) : block[k] # <<>>

\* zip of the lists in blocks: as many tuples as the shortest list has elements
Zip(lists) ==
    LET lens == {Len(lists[k]) : k \in 1..Len(lists)}
        n    == CHOOSE x \in lens : \A y \in lens : x <= y
    IN  [x \in 1..n |-> [k \in 1..Len(lists) |-> lists[k][x]]]

\* ZipAndPrune without the filter
ZipNoPrune(lists) == Zip(lists)

\* blocks = list(filter(any, zip of the lists in blocks))
ZipAndPrune(lists) == SelectSeq(Zip(lists), AnyNonEmpty)

\* align of args, given the value shared_substring of args returned
Align(as, sh) ==
    LET ms     == Matches(as, sh)
        starts == SharedStarts(ms)
        ends   == SharedEnds(starts, sh)
        split  == [k \in 1..Len(as) |-> SplitMatches(ms[k], starts, ends)]
        s2     == [k \in 1..Len(as) |-> MismatchStarts(split[k])]
        e2     == [k \in 1..Len(as) |-> MismatchEnds(s2[k], as[k])]
        parts  == [k \in 1..Len(as) |-> SplitString(as[k], s2[k], e2[k])]
    IN  ZipAndPrune(parts)

----------------------------------------------------------------------------
(* DiffWithContext                                                         *)

\* component k of every block of a list of blocks, joined
JoinComponent(blks, k) == Join([x \in 1..Len(blks) |-> blks[x][k]])

\* DiffWithContext with aligned[index:] as the right context
DiffWithContextOffByOne(sentence_id, al, index) ==
    LET blk == al[index + 1]
    IN  [sentence_id   |-> sentence_id,
         block         |-> blk,
         left_context  |-> [k \in 1..Len(blk) |->
                               JoinComponent(SubSeq(al, 1, index), k)],
         right_context |-> [k \in 1..Len(blk) |->
                               JoinComponent(SubSeq(al, index + 1, Len(al)), k)]]

\* DiffWithContext.__init__(sentence_id, aligned, index), index 0-based
DiffWithContext(sentence_id, al, index) ==
    LET blk == al[index + 1]
    IN  [sentence_id   |-> sentence_id,
         block         |-> blk,
         left_context  |-> [k \in 1..Len(blk) |->
                               JoinComponent(SubSeq(al, 1, index), k)],
         right_context |-> [k \in 1..Len(blk) |->
                               JoinComponent(SubSeq(al, index + 2, Len(al)), k)]]

\* len(set(block)) != 1
IsDivergent(blk) == Cardinality({blk[k] : k \in 1..Len(blk)}) # 1

\* the indices (0-based, ascending) main builds a DiffWithContext for
DivergentIndices(al) ==
    SortedInts({i \in 0..(Len(al) - 1) : IsDivergent(al[i + 1])})

\* main: the objects appended while enumerating aligned
CollectDiffs(sentence_id, al) ==
    LET idx == DivergentIndices(al)
    IN  [x \in 1..Len(idx) |-> DiffWithContext(sentence_id, al, idx[x])]

----------------------------------------------------------------------------
(* DiffWithContext: left_len, right_len, with_context                      *)

MaxOf(S) == CHOOSE x \in S : \A y \in S : x >= y

\* DiffWithContext.left_len
left_len(b) == MaxOf({Len(b.left_context[k]) : k \in 1..Len(b.left_context)})

\* DiffWithContext.right_len
right_len(b) ==
    MaxOf({Len(b.right_context[k]) : k \in 1..Len(b.right_context)})

\* with_context taking the first l characters of the left context
with_context_prefix(b, l, r, left_sep, right_sep) ==
    [k \in 1..Len(b.block) |->
        Slice(b.left_context[k], 0, l)
        \o left_sep \o b.block[k] \o right_sep
        \o Slice(b.right_context[k], 0, r)]

\* DiffWithContext.with_context(left_len, right_len, left_sep, right_sep)
with_context(b, l, r, left_sep, right_sep) ==
    [k \in 1..Len(b.block) |->
        Slice(b.left_context[k],
              Max(0, Len(b.left_context[k]) - l), Len(b.left_context[k]))
        \o left_sep \o b.block[k] \o right_sep
        \o Slice(b.right_context[k], 0, r)]

----------------------------------------------------------------------------
(* shared_context_size                                                     *)

\* is_shared with `1 <=` for `1 ==`
is_shared_at_least_one(bs, l, r) ==
    1 <= Cardinality({with_context(bs[x], l, r, <<>>, <<>>) : x \in 1..Len(bs)})

\* is_shared(left_len, right_len) of shared_context_size
is_shared(bs, l, r) ==
    1 = Cardinality({with_context(bs[x], l, r, <<>>, <<>>) : x \in 1..Len(bs)})

\* shared_context_loop stopping after one round
shared_context_loop_one_round(bs, l, r, left_len_max, right_len_max) ==
    LET l1 == IF l < left_len_max /\ is_shared(bs, l + 1, r)
              THEN l + 1 ELSE l
        r1 == IF r < right_len_max /\ is_shared(bs, l1, r + 1)
              THEN r + 1 ELSE r
    IN  <<l1, r1>>

\* shared_context_loop growing to the left without asking is_shared
RECURSIVE shared_context_loop_unchecked_left(_, _, _, _, _)
shared_context_loop_unchecked_left(bs, l, r, left_len_max, right_len_max) ==
    LET l1 == IF l < left_len_max THEN l + 1 ELSE l
        r1 == IF r < right_len_max /\ is_shared(bs, l1, r + 1)
              THEN r + 1 ELSE r
    IN  IF l1 = l /\ r1 = r THEN <<l, r>>
        ELSE shared_context_loop_unchecked_left(bs, l1, r1,
                                                left_len_max, right_len_max)

\* the `while True` loop of shared_context_size
RECURSIVE shared_context_loop(_, _, _, _, _)
shared_context_loop(bs, l, r, left_len_max, right_len_max) ==
    LET l1 == IF l < left_len_max /\ is_shared(bs, l + 1, r)
              THEN l + 1 ELSE l
        r1 == IF r < right_len_max /\ is_shared(bs, l1, r + 1)
              THEN r + 1 ELSE r
    IN  IF l1 = l /\ r1 = r THEN <<l, r>>
        ELSE shared_context_loop(bs, l1, r1, left_len_max, right_len_max)

\* shared_context_size(blocks)
shared_context_size(bs) ==
    shared_context_loop(bs, 0, 0,
                        MaxOf({left_len(bs[x]) : x \in 1..Len(bs)}),
                        MaxOf({right_len(bs[x]) : x \in 1..Len(bs)}))

----------------------------------------------------------------------------
(* largest_subgroup                                                        *)

\* collections.Counter(b.with_context(l, r) for b in blocks), as the set of
\* (context, count) pairs
context_counter(bs, l, r) ==
    {<<c, Cardinality({x \in 1..Len(bs) :
                          with_context(bs[x], l, r, <<>>, <<>>) = c})>> :
        c \in {with_context(bs[x], l, r, <<>>, <<>>) : x \in 1..Len(bs)}}

\* counter.most_common(1)[0]: a pair with the largest count.  Python breaks
\* a tie between equally common contexts by the iteration order of the
\* dictionary, which the language versions the script supports do not all
\* fix: every pair with the largest count is a possible value.
most_common(counter) ==
    {p \in counter : \A q \in counter : p[2] >= q[2]}

\* the members of blocks whose rendering at (l, r) is context
members_with(bs, l, r, context) ==
    LET Same(b) == context = with_context(b, l, r, <<>>, <<>>)
    IN  SelectSeq(bs, Same)

\* single_member returning the whole list
whole_list(bs) == bs

\* `return blocks[:1]`: no context differentiates between the blocks
single_member(bs) == SubSeq(bs, 1, 1)

\* largest_subgroup taking the right candidate when the two are equally
\* large
largest_subgroup_right_first(bs) ==
    IF Len(bs) = 1 THEN {bs}
    ELSE
    LET size     == shared_context_size(bs)
        l        == size[1]
        r        == size[2]
        go_left  == context_counter(bs, l + 1, r)
        go_right == context_counter(bs, l, r + 1)
        left_ok  == Cardinality(go_left) # 1
        right_ok == Cardinality(go_right) # 1
        left_n   == MaxOf({p[2] : p \in go_left})
        right_n  == MaxOf({p[2] : p \in go_right})
    IN  IF ~left_ok /\ ~right_ok THEN {single_member(bs)}
        ELSE IF left_ok /\ (~right_ok \/ left_n > right_n)
        THEN {members_with(bs, l + 1, r, p[1]) : p \in most_common(go_left)}
        ELSE {members_with(bs, l, r + 1, p[1]) : p \in most_common(go_right)}

\* largest_subgroup(blocks): the set of lists it can return (one list
\* unless equally common contexts tie)
largest_subgroup(bs) ==
    IF Len(bs) = 1 THEN {bs}
    ELSE
    LET size     == shared_context_size(bs)
        l        == size[1]
        r        == size[2]
        go_left  == context_counter(bs, l + 1, r)
        go_right == context_counter(bs, l, r + 1)
        left_ok  == Cardinality(go_left) # 1
        right_ok == Cardinality(go_right) # 1
        left_n   == MaxOf({p[2] : p \in go_left})
        right_n  == MaxOf({p[2] : p \in go_right})
    IN  IF ~left_ok /\ ~right_ok THEN {single_member(bs)}
        \* max(candidates, key=...) returns the first of the largest
        ELSE IF left_ok /\ (~right_ok \/ left_n >= right_n)
        THEN {members_with(bs, l + 1, r, p[1]) : p \in most_common(go_left)}
        ELSE {members_with(bs, l, r + 1, p[1]) : p \in most_common(go_right)}

\* with_residue without the residue
without_residue(gs, bs) == gs

\* `if blocks: groups.append(blocks)`
with_residue(gs, bs) == IF bs # <<>> THEN Append(gs, bs) ELSE gs

\* blocks = [b for b in blocks if b not in group]
without(bs, g) ==
    LET NotIn(b) == \A y \in 1..Len(g) : g[y] # b
    IN  SelectSeq(bs, NotIn)

----------------------------------------------------------------------------
(* Inputs.                                                                 *)

Strings(n) == UNION {[1..k -> Alphabet] : k \in 0..n}

\* 'Abc {test} def.', 'Abc {text} def.', 'Abc {fork} def.' of test.py
TestPrefix == <<65, 98, 99, 32, 123>>
TestSuffix == <<125, 32, 100, 101, 102, 46>>
TestStrings ==
    << TestPrefix \o <<116, 101, 115, 116>> \o TestSuffix,
       TestPrefix \o <<116, 101, 120, 116>> \o TestSuffix,
       TestPrefix \o <<102, 111, 114, 107>> \o TestSuffix >>

\* longer inputs: the strings of the tests, and inputs on which the second
\* pass of shared_substring still shortens shared
SampleArgs ==
    { TestStrings,
      <<TestStrings[1], TestStrings[1], TestStrings[1]>>,
      << <<ChA, ChB, ChA, ChA>>, <<ChA, ChC, ChA, ChA>> >>,
      << <<ChB, ChC, ChB>>, <<ChB, ChA, ChC, ChB, ChC>> >>,
      << <<ChA, ChB, ChA, ChB, ChA>>, <<ChA, ChB, ChB, ChA>>, <<ChB, ChB, ChA>> >>,
      << <<ChA, ChB, ChC, ChA>>, <<ChA, ChC, ChB, ChA>>, <<ChA, ChA>> >> }

InputArgs == UNION {[1..n -> Strings(MaxLen)] : n \in 1..MaxArgs} \cup SampleArgs

----------------------------------------------------------------------------
(* main, for one sentence: align its texts, collect the divergent blocks.  *)

\* the variables a specification does not use
IdleAlign ==
    /\ args = <<>> /\ sorted_args = <<>> /\ shared = <<>> /\ pre_shared = <<>>
    /\ npass = 0 /\ aligned = <<>> /\ diffs = <<>>
IdleGroup ==
    /\ group = <<>> /\ stack = <<>> /\ split_input = <<>> /\ blocks = <<>>
    /\ groups = <<>> /\ shared_context = <<0, 0>> /\ shown = <<>> /\ ncalls = 0
IdleContext == dwc = <<>> /\ rendered = <<>>
IdlePattern ==
    /\ block_a = <<>> /\ block_b = <<>> /\ pattern_a = <<>> /\ pattern_b = <<>>

InitAlign ==
    /\ args \in InputArgs
    /\ pc = "sort"
    /\ sorted_args = <<>>
    /\ shared = <<>>
    /\ pre_shared = <<>>
    /\ npass = 0
    /\ aligned = <<>>
    /\ diffs = <<>>
    /\ IdleGroup /\ IdleContext /\ IdlePattern

\* args = sorted(args); shared = args[0]
Sort ==
    /\ pc = "sort"
    /\ sorted_args' = SortedStrings(args)
    /\ shared' = sorted_args'[1]
    /\ pc' = "pass"
    /\ UNCHANGED <<args, pre_shared, npass, aligned, diffs>>
    /\ UNCHANGED <<groupVars, contextVars, patternVars>>

\* pre_shared = shared; for arg in args: shared = ...
Pass ==
    /\ pc = "pass"
    /\ pre_shared' = shared
    /\ shared' = FullPass(shared, sorted_args)
    /\ npass' = npass + 1
    /\ pc' = "check"
    /\ UNCHANGED <<args, sorted_args, aligned, diffs>>
    /\ UNCHANGED <<groupVars, contextVars, patternVars>>

\* shared != pre_shared: the while loop goes round
Repeat ==
    /\ pc = "check"
    /\ ~IsFixedPoint(shared, pre_shared)
    /\ pc' = "pass"
    /\ UNCHANGED <<args, sorted_args, shared, pre_shared, npass, aligned, diffs>>
    /\ UNCHANGED <<groupVars, contextVars, patternVars>>

\* shared == pre_shared: return shared
Return ==
    /\ pc = "check"
    /\ IsFixedPoint(shared, pre_shared)
    /\ pc' = "align"
    /\ UNCHANGED <<args, sorted_args, shared, pre_shared, npass, aligned, diffs>>
    /\ UNCHANGED <<groupVars, contextVars, patternVars>>

\* the rest of align
DoAlign ==
    /\ pc = "align"
    /\ aligned' = Align(args, shared)
    /\ pc' = "collect"
    /\ UNCHANGED <<args, sorted_args, shared, pre_shared, npass, diffs>>
    /\ UNCHANGED <<groupVars, contextVars, patternVars>>

\* for i, block in enumerate(aligned): ...
Collect ==
    /\ pc = "collect"
    /\ diffs' = CollectDiffs(1, aligned)
    /\ pc' = "done"
    /\ UNCHANGED <<args, sorted_args, shared, pre_shared, npass, aligned>>
    /\ UNCHANGED <<groupVars, contextVars, patternVars>>

NextAlign == Sort \/ Pass \/ Repeat \/ Return \/ DoAlign \/ Collect

SpecAlign == InitAlign /\ [][NextAlign]_vars

----------------------------------------------------------------------------
(* show_hierarchically and split_into_subgroups, for one list of           *)
(* DiffWithContext objects with the same block.  The members come from     *)
(* different sentences, so sentence_id stands for the identity of the      *)
(* object (`b not in group` compares objects).                             *)

\* the block tuple with s in every component
Unanimous(s, n) == [k \in 1..n |-> s]

\* an alignment with one divergent block between two unanimous ones, as
\* align returns it (no block that is empty in every input)
AlignedAround(l, blk, r) ==
    (IF l = <<>> THEN <<>> ELSE <<Unanimous(l, Len(blk))>>)
    \o <<blk>>
    \o (IF r = <<>> THEN <<>> ELSE <<Unanimous(r, Len(blk))>>)

\* the DiffWithContext main builds for the divergent block of AlignedAround
Member(id, l, blk, r) ==
    DiffWithContext(id, AlignedAround(l, blk, r), IF l = <<>> THEN 0 ELSE 1)

\* the divergent block of the exhaustive groups (a substitution)
GroupBlocks == { << <<ChA>>, <<ChB>> >> }

Contexts == Strings(MaxCtx) \X Strings(MaxCtx)

\* a group of n members around the block blk, with the contexts cs
SmallGroup(n, blk, cs) == [x \in 1..n |-> Member(x, cs[x][1], blk, cs[x][2])]

\* larger groups: longer contexts, and members of alignments with a second
\* divergent block, whose contexts differ between the inputs
SampleGroups ==
    LET ab == << <<ChA>>, <<ChB>> >>
        a  == <<ChA>>
        b  == <<ChB>>
        c  == <<ChC>>
    IN  { << Member(1, a \o b, ab, a), Member(2, b \o b, ab, a),
             Member(3, c \o b, ab, b), Member(4, b, ab, a \o a) >>,
          << Member(1, a \o b, ab, a), Member(2, a \o b, ab, a),
             Member(3, a \o b, ab, a) >>,
          << Member(1, a, ab, b \o c), Member(2, a, ab, b \o a),
             Member(3, b, ab, b \o c), Member(4, a, ab, c) >>,
          << DiffWithContext(1, <<ab, Unanimous(b, 2), ab>>, 2),
             DiffWithContext(2, <<Unanimous(b, 2), ab>>, 1),
             DiffWithContext(3, <<ab, Unanimous(a \o b, 2), ab, ab>>, 2) >>,
          << Member(1, a, << <<>>, a >>, b), Member(2, a \o a, << <<>>, a >>, b),
             Member(3, b \o a, << <<>>, a >>, <<>>) >>,
          << DiffWithContext(1, <<ab, Unanimous(b, 2), ab>>, 0),
             DiffWithContext(2, <<ab, Unanimous(b, 2)>>, 0),
             DiffWithContext(3, <<ab, Unanimous(b \o a, 2), ab>>, 0),
             DiffWithContext(4, <<ab, Unanimous(a, 2)>>, 0) >>,
          \* the insertion of align('a', 'aa') and that of align('ab', 'aab')
          << Member(1, a, << <<>>, a >>, <<>>),
             Member(2, <<>>, << <<>>, a >>, a \o b) >> }

\* an order of the contexts
ContextLeq(c, d) ==
    \/ c = d
    \/ StrLess(c[1], d[1])
    \/ c[1] = d[1] /\ StrLess(c[2], d[2])

\* every group of up to MaxGroup members with contexts of up to MaxCtx
\* characters, and the sample groups.  The order of the members of a list
\* only decides which of several equally common contexts most_common takes
\* first and which of several members with the same context blocks[:1] is;
\* the model takes every outcome of the former and the members of the
\* latter differ in sentence_id only, so the exhaustive groups are listed in
\* one order of their contexts.
IsInputGroup(g) ==
    \/ \E n \in 1..MaxGroup, blk \in GroupBlocks :
           \E cs \in [1..n -> Contexts] :
               /\ \A x \in 1..(n - 1) : ContextLeq(cs[x], cs[x + 1])
               /\ g = SmallGroup(n, blk, cs)
    \/ g \in SampleGroups

InitGroup ==
    /\ IsInputGroup(group)
    /\ pc = "show"
    /\ stack = <<group>>
    /\ split_input = <<>>
    /\ blocks = <<>>
    /\ groups = <<>>
    /\ shared_context = <<0, 0>>
    /\ shown = <<>>
    /\ ncalls = 0
    /\ IdleAlign /\ IdleContext /\ IdlePattern

\* show_hierarchically(blocks) with len(blocks) == 1: print the sentence
ShowLeaf ==
    /\ pc = "show"
    /\ stack # <<>>
    /\ Len(Head(stack)) = 1
    /\ shown' = Append(shown, Head(stack)[1].sentence_id)
    /\ stack' = Tail(stack)
    /\ ncalls' = ncalls + 1
    /\ UNCHANGED <<pc, group, split_input, blocks, groups, shared_context>>
    /\ UNCHANGED <<alignVars, contextVars, patternVars>>

\* split_into_subgroups(blocks) up to the while loop
EnterSplit(bs) ==
    /\ split_input' = bs
    /\ blocks' = bs
    /\ groups' = <<>>
    /\ shared_context' = shared_context_size(bs)
    /\ pc' = "split"

\* show_hierarchically(blocks) with len(blocks) != 1: print the summary and
\* call split_into_subgroups
ShowGroup ==
    /\ pc = "show"
    /\ stack # <<>>
    /\ Len(Head(stack)) # 1
    /\ EnterSplit(Head(stack))
    /\ stack' = Tail(stack)
    /\ ncalls' = ncalls + 1
    /\ UNCHANGED <<group, shown>>
    /\ UNCHANGED <<alignVars, contextVars, patternVars>>

\* split_into_subgroups called on a list of one member, which
\* show_hierarchically never does
SplitSingleton ==
    /\ pc = "show"
    /\ ncalls = 0
    /\ Len(group) = 1
    /\ EnterSplit(group)
    /\ stack' = <<>>
    /\ UNCHANGED <<group, shown, ncalls>>
    /\ UNCHANGED <<alignVars, contextVars, patternVars>>

\* `while blocks and shared_context_size(blocks) == shared_context`
LoopCondition ==
    blocks # <<>> /\ shared_context_size(blocks) = shared_context

\* one iteration of the while loop
Peel ==
    /\ pc = "split"
    /\ LoopCondition
    /\ \E g \in largest_subgroup(blocks) :
           /\ blocks' = without(blocks, g)
           /\ groups' = Append(groups, g)
    /\ UNCHANGED <<pc, group, stack, split_input, shared_context, shown, ncalls>>
    /\ UNCHANGED <<alignVars, contextVars, patternVars>>

\* `if blocks: groups.append(blocks)` and `return groups`; back in
\* show_hierarchically, `for group in ...: show_hierarchically(group)`: the
\* calls are made in order, before those still pending
EndSplit ==
    /\ pc = "split"
    /\ ~LoopCondition
    /\ groups' = with_residue(groups, blocks)
    /\ stack' = IF ncalls > 0 THEN groups' \o stack ELSE stack
    /\ pc' = "show"
    /\ UNCHANGED <<group, split_input, blocks, shared_context, shown, ncalls>>
    /\ UNCHANGED <<alignVars, contextVars, patternVars>>

NextGroup == ShowLeaf \/ ShowGroup \/ SplitSingleton \/ Peel \/ EndSplit

SpecGroup == InitGroup /\ [][NextGroup]_vars

----------------------------------------------------------------------------
(* Calls of with_context on one DiffWithContext object.                    *)

\* the object of TestDiffWithContext.test_with_context
TestDiff ==
    DiffWithContext(1234,
                    << Unanimous(TestPrefix, 3),
                       << <<116, 101, 115, 116>>, <<116, 101, 120, 116>>,
                          <<102, 111, 114, 107>> >>,
                       Unanimous(TestSuffix, 3) >>,
                    1)

\* '[' and ']', the separators of the test; show_hierarchically passes
\* '<b>' and '</b>'
Separators == { << <<>>, <<>> >>, << <<91>>, <<93>> >> }

\* the object of the test, the members of the sample groups, and every
\* object with contexts of up to MaxCtx characters
IsInputDiff(d) ==
    \/ d = TestDiff
    \/ \E g \in SampleGroups : \E x \in 1..Len(g) : d = g[x]
    \/ \E blk \in GroupBlocks, c \in Contexts : d = Member(1, c[1], blk, c[2])

InitContext ==
    /\ IsInputDiff(dwc)
    /\ pc = "object"
    /\ rendered = <<>>
    /\ IdleAlign /\ IdleGroup /\ IdlePattern

Rendering(l, r, left_sep, right_sep) ==
    [left_len |-> l, right_len |-> r,
     left_sep |-> left_sep, right_sep |-> right_sep,
     result |-> with_context(dwc, l, r, left_sep, right_sep)]

\* dwc.with_context(l, r, left_sep, right_sep)
CallWithContext ==
    /\ pc = "object"
    /\ \E l \in 0..MaxWidth, r \in 0..MaxWidth, sep \in Separators :
           rendered' = Rendering(l, r, sep[1], sep[2])
    /\ UNCHANGED <<pc, dwc, alignVars, groupVars, patternVars>>

\* show_hierarchically for a leaf:
\* b.with_context(b.left_len(), b.right_len(), left_sep, right_sep)
CallWithFullContext ==
    /\ pc = "object"
    /\ \E sep \in Separators :
           rendered' = Rendering(left_len(dwc), right_len(dwc), sep[1], sep[2])
    /\ UNCHANGED <<pc, dwc, alignVars, groupVars, patternVars>>

NextContext == CallWithContext \/ CallWithFullContext

SpecContext == InitContext /\ [][NextContext]_vars

----------------------------------------------------------------------------
(* diff_pattern                                                            *)

\* block.index(v), 0-based
index_of(blk, v) ==
    (CHOOSE q \in 1..Len(blk) :
        blk[q] = v /\ \A p \in 1..(q - 1) : blk[p] # v) - 1

\* sep.join(parts)
RECURSIVE JoinWith(_, _)
JoinWith(sep, parts) ==
    IF parts = <<>> THEN <<>>
    ELSE IF Len(parts) = 1 THEN Head(parts)
    ELSE Head(parts) \o sep \o JoinWith(sep, Tail(parts))

\* diff_pattern with the position of the element for block.index
diff_pattern_by_position(blk) ==
    JoinWith(<<OrdSpace>>, [k \in 1..Len(blk) |-> <<OrdA + (k - 1)>>])

\* diff_pattern numbering the distinct values 0, 1, 2, ... in the order of
\* their first occurrence
diff_pattern_by_rank(blk) ==
    JoinWith(<<OrdSpace>>,
             [k \in 1..Len(blk) |->
                 <<OrdA + Cardinality({blk[p] : p \in 1..index_of(blk, blk[k])})>>])

\* diff_pattern(block): chr(ord('a') + block.index(i)) for i in block,
\* joined by ' '
diff_pattern(blk) ==
    JoinWith(<<OrdSpace>>,
             [k \in 1..Len(blk) |-> <<OrdA + index_of(blk, blk[k])>>])

\* the substrings of the blocks diff_pattern is called with
PatternValues == {<<>>, <<ChA>>, <<ChB>>, <<ChC>>}

InitPattern ==
    /\ \E n \in 1..MaxBlock :
           /\ block_a \in [1..n -> PatternValues]
           /\ block_b \in [1..n -> PatternValues]
    /\ pc = "blocks"
    /\ pattern_a = <<>>
    /\ pattern_b = <<>>
    /\ IdleAlign /\ IdleGroup /\ IdleContext

\* main: diff_pattern(block) for the blocks of the tally
Classify ==
    /\ pc = "blocks"
    /\ pattern_a' = diff_pattern(block_a)
    /\ pattern_b' = diff_pattern(block_b)
    /\ pc' = "classified"
    /\ UNCHANGED <<block_a, block_b, alignVars, groupVars, contextVars>>

NextPattern == Classify

SpecPattern == InitPattern /\ [][NextPattern]_vars

----------------------------------------------------------------------------
(* Properties of the alignment.                                            *)

Aligned == pc \in {"collect", "done"}

\* C1: align returns N-tuples, and for each input index k the components k
\* of the returned blocks, concatenated in order, are input string k.
C1_AlignReconstructs ==
    Aligned =>
        /\ \A x \in 1..Len(aligned) : Len(aligned[x]) = Len(args)
        /\ \A k \in 1..Len(args) :
               Join([x \in 1..Len(aligned) |-> aligned[x][k]]) = args[k]

\* three inputs aligned into at least three blocks, one of them with an
\* empty and a non-empty component
C1_Witness ==
    /\ pc = "done"
    /\ Len(args) = 3
    /\ Len(aligned) >= 3
    /\ \E x \in 1..Len(aligned) :
           \E k, l \in 1..3 : aligned[x][k] = <<>> /\ aligned[x][l] # <<>>

ThreeEqual == Len(args) = 3 /\ args[1] = args[2] /\ args[2] = args[3]

\* C2 as stated: align(s, s, s) is the one block (s, s, s), for any s.
C2_Original == (Aligned /\ ThreeEqual) => aligned = <<args>>

\* C2: align(s, s, s) is the one block (s, s, s) for a non-empty s, and no
\* block at all for the empty string.
C2_EqualInputs ==
    (Aligned /\ ThreeEqual) =>
        aligned = IF args[1] = <<>> THEN <<>> ELSE <<args>>

C2_Witness == pc = "done" /\ ThreeEqual /\ Len(args[1]) >= 2

\* C5: a pass of the while loop of shared_substring leaves a subsequence of
\* the previous value, strictly shorter unless equal; the loop has run at
\* most len(args[0]) + 1 passes; the value returned is left unchanged by one
\* more pass.
C5_Converges ==
    /\ pc = "check" =>
           /\ IsSubsequence(shared, pre_shared)
           /\ shared # pre_shared => Len(shared) < Len(pre_shared)
    /\ pc \in {"pass", "check"} => npass <= Len(sorted_args[1]) + 1
    /\ pc \in {"align", "collect", "done"} =>
           ForArgs(shared, sorted_args) = shared

\* the second pass still shortened shared, and the loop returned
C5_Witness == pc = "done" /\ npass >= 3

IsUnanimous(blk) == ~IsDivergent(blk)

\* C9 as stated: the contexts are the unanimous blocks before and after the
\* block.
C9_Original ==
    pc = "done" =>
        \A x \in 1..Len(diffs) :
            LET i == DivergentIndices(aligned)[x]
                before == SelectSeq(SubSeq(aligned, 1, i), IsUnanimous)
                after  == SelectSeq(SubSeq(aligned, i + 2, Len(aligned)),
                                    IsUnanimous)
            IN  \A k \in 1..Len(args) :
                    /\ diffs[x].left_context[k] =
                           Join([y \in 1..Len(before) |-> before[y][k]])
                    /\ diffs[x].right_context[k] =
                           Join([y \in 1..Len(after) |-> after[y][k]])

\* the length of components k of the first n blocks
RECURSIVE LenBefore(_, _, _)
LenBefore(al, n, k) ==
    IF n = 0 THEN 0 ELSE LenBefore(al, n - 1, k) + Len(al[n][k])

\* C9: the contexts of the block at position i are the components of all
\* blocks before and after it, divergent ones included: for input k, all of
\* input string k before the block and all of it after the block.
C9_ContextIsAllBlocks ==
    pc = "done" =>
        /\ Len(diffs) = Len(DivergentIndices(aligned))
        /\ \A x \in 1..Len(diffs) :
               LET i == DivergentIndices(aligned)[x]
               IN  /\ diffs[x].block = aligned[i + 1]
                   /\ \A k \in 1..Len(args) :
                          LET at == LenBefore(aligned, i, k)
                          IN  /\ diffs[x].left_context[k] =
                                     Slice(args[k], 0, at)
                              /\ diffs[x].right_context[k] =
                                     Slice(args[k],
                                           at + Len(aligned[i + 1][k]),
                                           Len(args[k]))

\* an alignment with two divergent blocks; the left context of the second
\* differs between the inputs
C9_Witness ==
    /\ pc = "done"
    /\ Len(diffs) >= 2
    /\ diffs[2].left_context[1] # diffs[2].left_context[2]

----------------------------------------------------------------------------
(* Properties of the grouping.                                             *)

\* split_into_subgroups has returned groups for split_input
SplitReturned == pc = "show" /\ split_input # <<>>

Ids(bs) == {bs[x].sentence_id : x \in 1..Len(bs)}

\* C3: the groups split_into_subgroups returns partition its input: no
\* group is empty, no member is in two groups or twice in one, and the
\* groups together are the input.
C3_SplitPartitions ==
    SplitReturned =>
        /\ \A x \in 1..Len(groups) : groups[x] # <<>>
        /\ Len(Join(groups)) = Len(split_input)
        /\ Cardinality(Ids(Join(groups))) = Len(split_input)
        /\ {Join(groups)[x] : x \in 1..Len(Join(groups))}
               = {split_input[x] : x \in 1..Len(split_input)}

\* a list of three or more members split into a group of two or more and a
\* residue appended after the loop
C3_Witness ==
    /\ SplitReturned
    /\ Len(split_input) >= 3
    /\ \E x \in 1..Len(groups) : Len(groups[x]) >= 2
    /\ blocks # <<>>

\* C4: of a list of more than one member, every group peeled off or
\* returned is non-empty and strictly smaller than the list; no more than
\* 2n - 1 calls of show_hierarchically are made for a list of n members,
\* and when none is pending every member has been printed as a leaf, once.
C4_Terminates ==
    /\ Len(split_input) > 1 =>
           \A x \in 1..Len(groups) :
               0 < Len(groups[x]) /\ Len(groups[x]) < Len(split_input)
    /\ \A x \in 1..Len(stack) : stack[x] # <<>>
    /\ ncalls > 0 => ncalls <= 2 * Len(group) - 1
    /\ (pc = "show" /\ stack = <<>> /\ ncalls > 0) =>
           /\ Len(shown) = Len(group)
           /\ {shown[x] : x \in 1..Len(shown)} = Ids(group)

\* a list of three or more members shown to the end, through a subgroup
\* that was split again
C4_Witness ==
    /\ pc = "show" /\ stack = <<>>
    /\ Len(group) >= 3
    /\ ncalls >= Len(group) + 2

\* the non-empty sublists of a list
SubLists(bs) ==
    {LET Picked(b) == b.sentence_id \in ids IN SelectSeq(bs, Picked) :
        ids \in (SUBSET Ids(bs)) \ {{}}}

\* split_into_subgroups has just computed shared_context for split_input
SplitEntered == pc = "split" /\ groups = <<>> /\ blocks = split_input

\* C10: the shared context size of a group is at most that of each of its
\* non-empty subsets, on the left and on the right.
C10_ContextMonotone ==
    SplitEntered =>
        \A sub \in SubLists(split_input) :
            /\ shared_context[1] <= shared_context_size(sub)[1]
            /\ shared_context[2] <= shared_context_size(sub)[2]

\* a group with some shared context and a subset that shares more, on both
\* sides
C10_Witness ==
    /\ SplitEntered
    /\ shared_context[1] + shared_context[2] > 0
    /\ \E sub \in SubLists(split_input) :
           /\ shared_context[1] < shared_context_size(sub)[1]
           /\ shared_context[2] < shared_context_size(sub)[2]

\* the largest left and right context lengths of a list
LeftLenMax(bs) == MaxOf({left_len(bs[x]) : x \in 1..Len(bs)})
RightLenMax(bs) == MaxOf({right_len(bs[x]) : x \in 1..Len(bs)})

\* C11 as stated: all members render the same at the returned pair, and at
\* no other pair that is at least as large on both sides and within the
\* largest context lengths of the group.
C11_Original ==
    SplitEntered =>
        /\ is_shared(split_input, shared_context[1], shared_context[2])
        /\ \A l \in shared_context[1]..LeftLenMax(split_input),
              r \in shared_context[2]..RightLenMax(split_input) :
               <<l, r>> # shared_context => ~is_shared(split_input, l, r)

\* C11: all members render the same at the pair shared_context_size
\* returns, and one more character on the left alone, or on the right
\* alone, is not shared unless that side is at the largest context length
\* of the group.
C11_SharedAndLocallyMaximal ==
    SplitEntered =>
        /\ is_shared(split_input, shared_context[1], shared_context[2])
        /\ shared_context[1] < LeftLenMax(split_input) =>
               ~is_shared(split_input,
                          shared_context[1] + 1, shared_context[2])
        /\ shared_context[2] < RightLenMax(split_input) =>
               ~is_shared(split_input,
                          shared_context[1], shared_context[2] + 1)

\* a group of several members that shares some context and has more
\* context on both sides that is not shared
C11_Witness ==
    /\ SplitEntered
    /\ Len(split_input) >= 2
    /\ shared_context[1] + shared_context[2] > 0
    /\ shared_context[1] < LeftLenMax(split_input)
    /\ shared_context[2] < RightLenMax(split_input)

\* the classes of members of a list with the same rendering at (l, r), each
\* as the sublist of its members
ClassesAt(bs, l, r) ==
    {LET Same(b) == with_context(b, l, r, <<>>, <<>>)
                        = with_context(bs[x], l, r, <<>>, <<>>)
     IN  SelectSeq(bs, Same) : x \in 1..Len(bs)}

\* the classes one more character on the left, or on the right, of the
\* shared context splits a list into
LeftClasses(bs) ==
    ClassesAt(bs, shared_context_size(bs)[1] + 1, shared_context_size(bs)[2])
RightClasses(bs) ==
    ClassesAt(bs, shared_context_size(bs)[1], shared_context_size(bs)[2] + 1)

\* the largest number of members of a class
Best(classes) == MaxOf({Len(c) : c \in classes})

\* the classes of the directions that differentiate between the members
Differentiating(bs) ==
    (IF Cardinality(LeftClasses(bs)) >= 2 THEN LeftClasses(bs) ELSE {})
    \cup (IF Cardinality(RightClasses(bs)) >= 2 THEN RightClasses(bs) ELSE {})

\* C12: when one more character of context on the left or on the right
\* splits a list of more than one member into two or more classes, the
\* group largest_subgroup returns (the one the loop of
\* split_into_subgroups appends) is one of these classes, no class of a
\* differentiating direction has more members, and it is a left class
\* when both directions differentiate and their largest classes are
\* equally large.
C12_LargestClass ==
    [][(/\ pc = "split"
        /\ Len(groups') = Len(groups) + 1
        /\ Len(blocks) > 1
        /\ Differentiating(blocks) # {})
       => /\ groups'[Len(groups')] \in Differentiating(blocks)
          /\ \A c \in Differentiating(blocks) :
                 Len(c) <= Len(groups'[Len(groups')])
          /\ (/\ Cardinality(LeftClasses(blocks)) >= 2
              /\ Cardinality(RightClasses(blocks)) >= 2
              /\ Best(LeftClasses(blocks)) = Best(RightClasses(blocks)))
             => groups'[Len(groups')] \in LeftClasses(blocks)]_vars

\* the first group taken from a list of three or more members that both
\* directions split, with equally large largest classes of two or more
\* members: a left class that is not a right class
C12_Witness ==
    /\ pc = "split"
    /\ Len(groups) = 1
    /\ Len(split_input) >= 3
    /\ Cardinality(LeftClasses(split_input)) >= 2
    /\ Cardinality(RightClasses(split_input)) >= 2
    /\ Best(LeftClasses(split_input)) = Best(RightClasses(split_input))
    /\ Len(groups[1]) >= 2
    /\ groups[1] \in LeftClasses(split_input)
    /\ groups[1] \notin RightClasses(split_input)

MinOf(S) == CHOOSE x \in S : \A y \in S : x <= y

\* the smallest left and right context lengths of a list
LeftLenMin(bs) == MinOf({left_len(bs[x]) : x \in 1..Len(bs)})
RightLenMin(bs) == MinOf({right_len(bs[x]) : x \in 1..Len(bs)})

\* C13: the pair shared_context_size returns is at most the smallest
\* left_len() of the members on the left and at most their smallest
\* right_len() on the right.
C13_BoundedByMin ==
    SplitEntered =>
        /\ shared_context[1] <= LeftLenMin(split_input)
        /\ shared_context[2] <= RightLenMin(split_input)

\* a group whose shared left context is all of the shortest left context,
\* while another member has more
C13_Witness ==
    /\ SplitEntered
    /\ Len(split_input) >= 2
    /\ shared_context[1] > 0
    /\ shared_context[1] = LeftLenMin(split_input)
    /\ LeftLenMin(split_input) < LeftLenMax(split_input)

----------------------------------------------------------------------------
(* Properties of with_context.                                             *)

LastChars(str, n) == [x \in 1..n |-> str[Len(str) - n + x]]
FirstChars(str, n) == [x \in 1..n |-> str[x]]

\* C8: with_context returns, for each input, the last min(left_len, |left
\* context|) characters of the left context, left_sep, the block, right_sep
\* and the first min(right_len, |right context|) characters of the right
\* context; with the widths left_len() and right_len() that is the whole
\* left and right context around the block.
C8_WithContext ==
    rendered # <<>> =>
        /\ Len(rendered.result) = Len(dwc.block)
        /\ \A k \in 1..Len(dwc.block) :
               LET lc == dwc.left_context[k]
                   rc == dwc.right_context[k]
               IN  /\ rendered.result[k] =
                          LastChars(lc, Min(rendered.left_len, Len(lc)))
                          \o rendered.left_sep \o dwc.block[k]
                          \o rendered.right_sep
                          \o FirstChars(rc, Min(rendered.right_len, Len(rc)))
                   /\ (/\ rendered.left_len = left_len(dwc)
                       /\ rendered.right_len = right_len(dwc)) =>
                          rendered.result[k] =
                              lc \o rendered.left_sep \o dwc.block[k]
                              \o rendered.right_sep \o rc

\* the call of the test: with_context(3, 1, '[', ']') is
\* ('c {[test]}', 'c {[text]}', 'c {[fork]}')
C8_Witness ==
    /\ dwc = TestDiff
    /\ rendered # <<>>
    /\ rendered.left_len = 3 /\ rendered.right_len = 1
    /\ rendered.result =
           << <<99, 32, 123, 91, 116, 101, 115, 116, 93, 125>>,
              <<99, 32, 123, 91, 116, 101, 120, 116, 93, 125>>,
              <<99, 32, 123, 91, 102, 111, 114, 107, 93, 125>> >>

----------------------------------------------------------------------------
(* Properties of diff_pattern.                                             *)

\* the two blocks put the same positions into classes of equal values
SamePartition(blk1, blk2) ==
    \A p, q \in 1..Len(blk1) : (blk1[p] = blk1[q]) <=> (blk2[p] = blk2[q])

\* C6: two blocks of the same length get the same pattern exactly if they
\* induce the same partition of the positions into classes of equal values.
C6_PatternIsPartition ==
    pc = "classified" =>
        ((pattern_a = pattern_b) <=> SamePartition(block_a, block_b))

\* two different blocks of three values, two of them equal, with the same
\* pattern
C6_Witness ==
    /\ pc = "classified"
    /\ Len(block_a) = 3
    /\ block_a # block_b
    /\ pattern_a = pattern_b
    /\ Cardinality({block_a[k] : k \in 1..3}) = 2

\* the number of distinct values that occur in blk before the first
\* occurrence of blk[k]
Rank(blk, k) == Cardinality({blk[p] : p \in 1..index_of(blk, blk[k])})

\* the letter diff_pattern wrote for position k
LetterAt(pattern, k) == pattern[2 * k - 1]

\* C7 as stated: the k-th distinct value, in order of first occurrence, is
\* written as the k-th letter of the alphabet.
C7_Original ==
    pc = "classified" =>
        \A k \in 1..Len(block_a) :
            LetterAt(pattern_a, k) = OrdA + Rank(block_a, k)

\* C7: the pattern has one letter per position, separated by spaces; the
\* letter of a position is the letter of 'a', 'b', 'c', ... whose index is
\* the position of the first occurrence of the value at that position
\* (counted from 0).  It is the k-th letter for the k-th distinct value as
\* long as no value is repeated before a new one first occurs.
C7_LetterIsFirstIndex ==
    pc = "classified" =>
        /\ Len(pattern_a) = 2 * Len(block_a) - 1
        /\ \A k \in 1..Len(block_a) :
               /\ k > 1 => pattern_a[2 * k - 2] = OrdSpace
               /\ \E q \in 1..k :
                      /\ block_a[q] = block_a[k]
                      /\ \A p \in 1..(q - 1) : block_a[p] # block_a[k]
                      /\ LetterAt(pattern_a, k) = OrdA + (q - 1)
               /\ (\A p \in 1..(k - 1) : Rank(block_a, p) = p - 1) =>
                      LetterAt(pattern_a, k) = OrdA + Rank(block_a, k)

\* (x, x, y): the second distinct value is written 'c'
C7_Witness ==
    /\ pc = "classified"
    /\ Len(block_a) = 3
    /\ block_a[1] = block_a[2] /\ block_a[3] # block_a[1]
    /\ pattern_a = <<OrdA, OrdSpace, OrdA, OrdSpace, OrdA + 2>>

====
